---- MODULE Spec2Model ----
(***************************************************************************)
(* Aurora Code: the GF(2^8) Reed-Solomon erasure codec, the packet encoder *)
(* (encodeData) and the multi-frame decoder (FrameDecoder).                *)
(*                                                                         *)
(* Arrays of the source (Uint8Array, number[]) are TLA+ sequences; the     *)
(* source's index i is position i+1 here.  null is the number Null, which  *)
(* no byte, frame index, frame count or sequence id of the model equals.   *)
(***************************************************************************)
EXTENDS Integers, Sequences, FiniteSets, TLC

VARIABLES input, packet, state, fed, ret, rs, call, ui

vars == <<input, packet, state, fed, ret, rs, call, ui>>

Null == 0 - 2

\* ------------------------------------------------------------------------
\* Bounds of the model
\* ------------------------------------------------------------------------

\* longest input string, in characters
MaxChars == 4
\* longest data sequence handed to rsEncode directly
MaxK == 3
\* largest parity count handed to rsEncode directly
MaxParity == 3

\* ------------------------------------------------------------------------
\* Bit operations on non-negative integers
\* ------------------------------------------------------------------------

RECURSIVE Xor(_, _)
Xor(a, b) ==
  IF a = 0 THEN b
  ELSE IF b = 0 THEN a
  ELSE (((a % 2) + (b % 2)) % 2) + 2 * Xor(a \div 2, b \div 2)

RECURSIVE Zeros(_)
Zeros(n) == IF n <= 0 THEN <<>> ELSE Append(Zeros(n - 1), 0)

\* ------------------------------------------------------------------------
\* GF(2^8), primitive polynomial 0x11d
\* ------------------------------------------------------------------------

GF_SIZE == 256
PRIMITIVE_POLYNOMIAL == 285

\* x <<= 1; if (x >= GF_SIZE) x ^= PRIMITIVE_POLYNOMIAL
\* the step of the table with the polynomial 0x11B, of which 2 is no
\* primitive element
NextPowerAES(x) == IF 2 * x >= GF_SIZE THEN Xor(2 * x, 283) ELSE 2 * x

NextPower(x) ==
  LET x2 == 2 * x
  IN  IF x2 >= GF_SIZE THEN Xor(x2, PRIMITIVE_POLYNOMIAL) ELSE x2

\* the values of x in n successive rounds of the loop of initTables, the
\* first being x; halved so that the evaluation stays shallow
RECURSIVE ExpRun(_, _)
ExpRun(x, n) ==
  IF n = 1 THEN <<x>>
  ELSE LET half == n \div 2
           front == ExpRun(x, half)
       IN  front \o ExpRun(NextPower(front[half]), n - half)

\* gfExp: 512 entries, [i] and [i+255] written for i < 255, [510] and [511] left 0
gfExpTable == LET run == ExpRun(1, 255) IN run \o run \o <<0, 0>>

gfExp(i) == gfExpTable[i + 1]

\* gfLog[x] = i for the last i < 255 with gfExp[i] = x; an entry never
\* written stays 0, and gfLog[0] = 0 is written last
LogEntry(x) ==
  LET hits == {i \in 0..254 : gfExpTable[i + 1] = x}
  IN  IF x = 0 \/ hits = {} THEN 0
      ELSE CHOOSE i \in hits : \A j \in hits : j <= i

RECURSIVE LogRun(_, _)
LogRun(lo, hi) ==
  IF lo = hi THEN <<LogEntry(lo)>>
  ELSE LET mid == (lo + hi) \div 2
       IN  LogRun(lo, mid) \o LogRun(mid + 1, hi)

gfLogTable == LogRun(0, 255)

gfLog(a) == gfLogTable[a + 1]

gfAdd(a, b) == Xor(a, b)

\* a product that is one power of alpha too high
gfMulShifted(a, b) ==
  IF a = 0 \/ b = 0 THEN 0 ELSE gfExp(gfLog(a) + gfLog(b) + 1)

gfMul(a, b) == IF a = 0 \/ b = 0 THEN 0 ELSE gfExp(gfLog(a) + gfLog(b))

\* gfDiv throws on b = 0; callers test gfDivThrows first
gfDivThrows(a, b) == b = 0

gfDiv(a, b) == IF a = 0 THEN 0 ELSE gfExp(gfLog(a) + 255 - gfLog(b))

gfPow(a, n) ==
  IF n = 0 THEN 1
  ELSE IF a = 0 THEN 0
  ELSE gfExp((gfLog(a) * n) % 255)

\* gfInverse throws on a = 0; callers test gfInverseThrows first
gfInverseThrows(a) == a = 0

gfInverse(a) == gfExp(255 - gfLog(a))

RECURSIVE polyMulLoop(_, _, _, _)
polyMulLoop(p, q, idx, res) ==
  IF idx = Len(p) * Len(q) THEN res
  ELSE LET i == idx \div Len(q)
           j == idx % Len(q)
       IN  polyMulLoop(p, q, idx + 1,
             [res EXCEPT ![i + j + 1] =
                gfAdd(res[i + j + 1], gfMul(p[i + 1], q[j + 1]))])

polyMul(p, q) == polyMulLoop(p, q, 0, Zeros(Len(p) + Len(q) - 1))

\* Horner, from the highest coefficient down
RECURSIVE polyEvalLoop(_, _, _, _)
polyEvalLoop(p, x, i, result) ==
  IF i < 0 THEN result
  ELSE polyEvalLoop(p, x, i - 1, gfAdd(gfMul(result, x), p[i + 1]))

polyEval(p, x) == polyEvalLoop(p, x, Len(p) - 1, 0)

RECURSIVE generatorPolyLoop(_, _, _)
generatorPolyLoop(nsym, i, g) ==
  IF i >= nsym THEN g
  ELSE generatorPolyLoop(nsym, i + 1, polyMul(g, <<gfExp(i), 1>>))

generatorPoly(nsym) == generatorPolyLoop(nsym, 0, <<1>>)

\* ------------------------------------------------------------------------
\* Reed-Solomon
\* ------------------------------------------------------------------------

\* inner loop of the synthetic division: msgPoly[i+j] ^= generator[j] * coef
RECURSIVE rsEncodeInner(_, _, _, _, _)
rsEncodeInner(msgPoly, generator, i, coef, j) ==
  IF j >= Len(generator) THEN msgPoly
  ELSE rsEncodeInner(
         [msgPoly EXCEPT ![i + j + 1] =
            gfAdd(msgPoly[i + j + 1], gfMul(generator[j + 1], coef))],
         generator, i, coef, j + 1)

\* outer loop: i from data.length - 1 down to 0
RECURSIVE rsEncodeDivide(_, _, _, _)
rsEncodeDivide(msgPoly, generator, parityCount, i) ==
  IF i < 0 THEN msgPoly
  ELSE LET coef == msgPoly[parityCount + i + 1]
       IN  rsEncodeDivide(
             IF coef # 0 THEN rsEncodeInner(msgPoly, generator, i, coef, 0)
                         ELSE msgPoly,
             generator, parityCount, i - 1)

rsEncode(data, parityCount) ==
  LET generator == generatorPoly(parityCount)
      msgPoly == Zeros(parityCount) \o data
      divided == rsEncodeDivide(msgPoly, generator, parityCount, Len(data) - 1)
  IN  data \o SubSeq(divided, 1, parityCount)

RECURSIVE calcSyndromesLoop(_, _, _, _)
calcSyndromesLoop(received, parityCount, i, syndromes) ==
  IF i >= parityCount THEN syndromes
  ELSE calcSyndromesLoop(received, parityCount, i + 1,
                         Append(syndromes, polyEval(received, gfPow(2, i))))

calcSyndromes(received, parityCount) ==
  calcSyndromesLoop(received, parityCount, 0, <<>>)

\* one factor [alpha^pos, 1] per erased position, lowest coefficient first
RECURSIVE calcErasureLocatorLoop(_, _, _)
calcErasureLocatorLoop(erasurePositions, i, locator) ==
  IF i > Len(erasurePositions) THEN locator
  ELSE calcErasureLocatorLoop(erasurePositions, i + 1,
         polyMul(locator, <<gfPow(2, erasurePositions[i]), 1>>))

calcErasureLocator(erasurePositions) ==
  calcErasureLocatorLoop(erasurePositions, 1, <<1>>)

\* erasureLocator[i] || 0
LocatorAt(erasureLocator, i) ==
  IF i >= 0 /\ i < Len(erasureLocator) THEN erasureLocator[i + 1] ELSE 0

\* syndromes[j]; past the array the read is undefined, gfMul of it is
\* undefined, and sum ^ undefined is sum: the term adds 0
SyndromeAt(syndromes, j) ==
  IF j >= 0 /\ j < Len(syndromes) THEN syndromes[j + 1] ELSE 0

RECURSIVE omegaSum(_, _, _, _, _)
omegaSum(syndromes, erasureLocator, i, j, sum) ==
  IF j > i THEN sum
  ELSE omegaSum(syndromes, erasureLocator, i, j + 1,
         gfAdd(sum, gfMul(SyndromeAt(syndromes, j),
                          LocatorAt(erasureLocator, i - j))))

RECURSIVE omegaLoop(_, _, _, _, _)
omegaLoop(syndromes, erasureLocator, n, i, omega) ==
  IF i >= n THEN omega
  ELSE omegaLoop(syndromes, erasureLocator, n, i + 1,
         Append(omega, omegaSum(syndromes, erasureLocator, i, 0, 0)))

\* Omega(xiInv)
RECURSIVE omegaValLoop(_, _, _, _)
omegaValLoop(omega, xiInv, j, omegaVal) ==
  IF j >= Len(omega) THEN omegaVal
  ELSE omegaValLoop(omega, xiInv, j + 1,
         gfAdd(omegaVal, gfMul(omega[j + 1], gfPow(xiInv, j))))

\* the formal derivative at xiInv: the odd coefficients only
RECURSIVE locatorDerivLoop(_, _, _, _)
locatorDerivLoop(erasureLocator, xiInv, j, locatorDerivVal) ==
  IF j >= Len(erasureLocator) THEN locatorDerivVal
  ELSE locatorDerivLoop(erasureLocator, xiInv, j + 2,
         gfAdd(locatorDerivVal,
               gfMul(erasureLocator[j + 1], gfPow(xiInv, j - 1))))

\* e_i = xi * Omega(xiInv) / Lambda'(xiInv); "throw" when gfDiv raises
erasureValue(xi, omegaVal, locatorDerivVal) ==
  IF gfDivThrows(omegaVal, locatorDerivVal)
  THEN [tag |-> "throw", value |-> 0]
  ELSE [tag |-> "value", value |-> gfMul(xi, gfDiv(omegaVal, locatorDerivVal))]

\* the value at one erased position; "throw" when gfInverse raises
erasureValueAt(omega, erasureLocator, xi) ==
  IF gfInverseThrows(xi) THEN [tag |-> "throw", value |-> 0]
  ELSE erasureValue(xi,
                    omegaValLoop(omega, gfInverse(xi), 0, 0),
                    locatorDerivLoop(erasureLocator, gfInverse(xi), 1, 0))

\* Forney loop; tag "throw" is the Error that gfDiv or gfInverse raises
RECURSIVE erasureValuesLoop(_, _, _, _, _)
RECURSIVE erasureValuesNext(_, _, _, _, _, _)
erasureValuesLoop(omega, erasurePositions, erasureLocator, i, values) ==
  IF i > Len(erasurePositions) THEN [tag |-> "bytes", bytes |-> values]
  ELSE erasureValuesNext(omega, erasurePositions, erasureLocator, i, values,
         erasureValueAt(omega, erasureLocator,
                        gfPow(2, erasurePositions[i])))

erasureValuesNext(omega, erasurePositions, erasureLocator, i, values, e) ==
  IF e.tag = "throw" THEN [tag |-> "throw", bytes |-> <<>>]
  ELSE erasureValuesLoop(omega, erasurePositions, erasureLocator, i + 1,
                         Append(values, e.value))

calcErasureValues(syndromes, erasurePositions, erasureLocator) ==
  IF Len(erasurePositions) = 0 THEN [tag |-> "bytes", bytes |-> <<>>]
  ELSE erasureValuesLoop(
         omegaLoop(syndromes, erasureLocator, Len(erasurePositions), 0, <<>>),
         erasurePositions, erasureLocator, 1, <<>>)

\* n - 1 - i for every null data[i], in increasing i
RECURSIVE erasurePositionsLoop(_, _, _)
erasurePositionsLoop(data, i, erasurePositions) ==
  IF i >= Len(data) THEN erasurePositions
  ELSE erasurePositionsLoop(data, i + 1,
         IF data[i + 1] = Null
         THEN Append(erasurePositions, Len(data) - 1 - i)
         ELSE erasurePositions)

\* received[i] = data[n - 1 - i] ?? 0
RECURSIVE receivedLoop(_, _, _)
receivedLoop(data, i, received) ==
  IF i >= Len(data) THEN received
  ELSE receivedLoop(data, i + 1,
         Append(received,
                IF data[Len(data) - i] = Null THEN 0 ELSE data[Len(data) - i]))

\* a read-back that forgets to reverse: result[i] = received[i]
resultLoopForward(received, dataLength, i, result) ==
  [j \in 1..dataLength |-> received[j]]

\* result[i] = received[n - 1 - i]; a read past the array stores 0
RECURSIVE resultLoop(_, _, _, _)
resultLoop(received, dataLength, i, result) ==
  IF i >= dataLength THEN result
  ELSE resultLoop(received, dataLength, i + 1,
         Append(result,
                IF Len(received) - 1 - i >= 0
                THEN received[Len(received) - i] ELSE 0))

\* received[pos] ^= erasureValues[i]
RECURSIVE applyLoop(_, _, _, _)
applyLoop(received, erasurePositions, erasureValues, i) ==
  IF i > Len(erasurePositions) THEN received
  ELSE applyLoop(
         [received EXCEPT ![erasurePositions[i] + 1] =
            gfAdd(received[erasurePositions[i] + 1], erasureValues[i])],
         erasurePositions, erasureValues, i + 1)

AllZero(syndromes) == \A i \in 1..Len(syndromes) : syndromes[i] = 0

\* a guard that lets one erasure too many through
TooManyErasuresOffByOne(erasurePositions, parityCount) ==
  Len(erasurePositions) > parityCount + 1

\* erasurePositions.length > parityCount
TooManyErasures(erasurePositions, parityCount) ==
  Len(erasurePositions) > parityCount

\* the correction applied and the data read back
rsDecodeCorrected(received, erasurePositions, erasureValues, dataLength) ==
  IF erasureValues.tag = "throw"
  THEN [tag |-> "throw", bytes |-> <<>>]
  ELSE [tag |-> "bytes",
        bytes |-> resultLoop(applyLoop(received, erasurePositions,
                                       erasureValues.bytes, 1),
                             dataLength, 0, <<>>)]

\* from the syndromes on: nothing to correct when they are all zero
rsDecodeSyndromes(received, erasurePositions, syndromes, erasureLocator, dataLength) ==
  IF AllZero(syndromes)
  THEN [tag |-> "bytes", bytes |-> resultLoop(received, dataLength, 0, <<>>)]
  ELSE rsDecodeCorrected(received, erasurePositions,
         calcErasureValues(syndromes, erasurePositions, erasureLocator),
         dataLength)

\* from the erasure positions and the received polynomial on
rsDecodeReceived(received, erasurePositions, dataLength, parityCount) ==
  IF TooManyErasures(erasurePositions, parityCount)
  THEN [tag |-> "null", bytes |-> <<>>]
  ELSE IF Len(erasurePositions) = 0
  THEN [tag |-> "bytes", bytes |-> resultLoop(received, dataLength, 0, <<>>)]
  ELSE rsDecodeSyndromes(received, erasurePositions,
                         calcSyndromes(received, parityCount),
                         calcErasureLocator(erasurePositions), dataLength)

\* tag "bytes": the Uint8Array returned; "null": null; "throw": an Error
rsDecode(data, dataLength, parityCount) ==
  rsDecodeReceived(receivedLoop(data, 0, <<>>),
                   erasurePositionsLoop(data, 0, <<>>),
                   dataLength, parityCount)

\* ------------------------------------------------------------------------
\* The codec applied to one codeword: encode, lose symbols, decode
\* ------------------------------------------------------------------------

RsBytes == {0, 65, 255}

RECURSIVE SeqsUpTo(_, _)
SeqsUpTo(S, n) ==
  IF n = 0 THEN {<<>>}
  ELSE LET shorter == SeqsUpTo(S, n - 1)
       IN  shorter \cup {Append(q, x) : q \in {t \in shorter : Len(t) = n - 1},
                                        x \in S}

RsIdle == [pc |-> "off", data |-> <<>>, parityCount |-> 0,
           codeword |-> <<>>, out |-> [tag |-> "none", bytes |-> <<>>]]

Erased(codeword) == {i \in 1..Len(codeword) : codeword[i] = Null}

\* a caller hands data and a parity count to rsEncode
RsEncode ==
  /\ rs.pc = "start"
  /\ rs' = [rs EXCEPT !.pc = "sent",
                      !.codeword = rsEncode(rs.data, rs.parityCount)]
  /\ UNCHANGED <<input, packet, state, fed, ret, call, ui>>

\* the channel loses the symbol at one position: the caller puts null there
RsErase(i) ==
  /\ rs.pc = "sent"
  /\ i \in 1..Len(rs.codeword)
  /\ rs.codeword[i] # Null
  /\ rs' = [rs EXCEPT !.codeword[i] = Null]
  /\ UNCHANGED <<input, packet, state, fed, ret, call, ui>>

\* the caller hands what is left to rsDecode
RsDecode ==
  /\ rs.pc = "sent"
  /\ rs' = [rs EXCEPT !.pc = "decoded",
                      !.out = rsDecode(rs.codeword, Len(rs.data),
                                       rs.parityCount)]
  /\ UNCHANGED <<input, packet, state, fed, ret, call, ui>>

NextRS ==
  \/ RsEncode
  \/ \E i \in 1..(MaxK + MaxParity) : RsErase(i)
  \/ RsDecode

\* ------------------------------------------------------------------------
\* Text: a string is the sequence of its code points
\* ------------------------------------------------------------------------

\* TextEncoder.encode of one code point
utf8Bytes(cp) ==
  IF cp < 128 THEN <<cp>>
  ELSE IF cp < 2048 THEN <<192 + (cp \div 64), 128 + (cp % 64)>>
  ELSE IF cp < 65536
  THEN <<224 + (cp \div 4096), 128 + ((cp \div 64) % 64), 128 + (cp % 64)>>
  ELSE <<240 + (cp \div 262144), 128 + ((cp \div 4096) % 64),
         128 + ((cp \div 64) % 64), 128 + (cp % 64)>>

RECURSIVE textEncode(_)
textEncode(str) ==
  IF str = <<>> THEN <<>> ELSE utf8Bytes(Head(str)) \o textEncode(Tail(str))

\* TextDecoder('utf-8') without fatal: the decoder's state is the number of
\* continuation bytes needed and seen, the code point so far and the bounds
\* of the next continuation byte; an ill-formed sequence gives U+FFFD
\* (65533) and the offending byte is read again
RECURSIVE utf8DecodeLoop(_, _, _, _, _, _, _, _)
utf8DecodeLoop(bytes, i, needed, seen, cp, lower, upper, out) ==
  IF i > Len(bytes)
  THEN IF needed # 0 THEN Append(out, 65533) ELSE out
  ELSE LET b == bytes[i]
       IN  IF needed = 0
           THEN IF b <= 127
                THEN utf8DecodeLoop(bytes, i + 1, 0, 0, 0, 128, 191,
                                    Append(out, b))
                ELSE IF b >= 194 /\ b <= 223
                THEN utf8DecodeLoop(bytes, i + 1, 1, 0, b % 32, 128, 191, out)
                ELSE IF b >= 224 /\ b <= 239
                THEN utf8DecodeLoop(bytes, i + 1, 2, 0, b % 16,
                                    IF b = 224 THEN 160 ELSE 128,
                                    IF b = 237 THEN 159 ELSE 191, out)
                ELSE IF b >= 240 /\ b <= 244
                THEN utf8DecodeLoop(bytes, i + 1, 3, 0, b % 8,
                                    IF b = 240 THEN 144 ELSE 128,
                                    IF b = 244 THEN 143 ELSE 191, out)
                ELSE utf8DecodeLoop(bytes, i + 1, 0, 0, 0, 128, 191,
                                    Append(out, 65533))
           ELSE IF b < lower \/ b > upper
                THEN utf8DecodeLoop(bytes, i, 0, 0, 0, 128, 191,
                                    Append(out, 65533))
                ELSE IF seen + 1 = needed
                THEN utf8DecodeLoop(bytes, i + 1, 0, 0, 0, 128, 191,
                                    Append(out, cp * 64 + (b % 64)))
                ELSE utf8DecodeLoop(bytes, i + 1, needed, seen + 1,
                                    cp * 64 + (b % 64), 128, 191, out)

\* decoder.decode(bytes): a leading byte order mark (U+FEFF, 65279) is not
\* part of the text
textDecode(bytes) ==
  LET out == utf8DecodeLoop(bytes, 1, 0, 0, 0, 128, 191, <<>>)
  IN  IF out # <<>> /\ Head(out) = 65279 THEN Tail(out) ELSE out

\* text.indexOf('\0'), and substring(0, nullIndex) when it is not -1
RECURSIVE nullIndexFrom(_, _)
nullIndexFrom(text, i) ==
  IF i > Len(text) THEN 0 - 1
  ELSE IF text[i] = 0 THEN i - 1
  ELSE nullIndexFrom(text, i + 1)

trimAtNull(text) ==
  LET nullIndex == nullIndexFrom(text, 1)
  IN  IF nullIndex # 0 - 1 THEN SubSeq(text, 1, nullIndex) ELSE text

\* ------------------------------------------------------------------------
\* CRC-8, polynomial 0x07, initial value 0
\* ------------------------------------------------------------------------

\* eight shifts of one byte through the polynomial
RECURSIVE crc8Shift(_, _)
crc8Shift(crc, n) ==
  IF n = 0 THEN crc
  ELSE crc8Shift(IF crc >= 128 THEN Xor((crc * 2) % 256, 7)
                               ELSE (crc * 2) % 256,
                 n - 1)

\* the 256-entry table of the shifted bytes, built once
RECURSIVE crc8TableRun(_, _)
crc8TableRun(lo, hi) ==
  IF lo = hi THEN <<crc8Shift(lo, 8)>>
  ELSE LET mid == (lo + hi) \div 2
       IN  crc8TableRun(lo, mid) \o crc8TableRun(mid + 1, hi)

crc8Table == crc8TableRun(0, 255)

RECURSIVE crc8Loop(_, _, _)
crc8Loop(data, i, crc) ==
  IF i > Len(data) THEN crc
  ELSE crc8Loop(data, i + 1, crc8Table[Xor(crc, data[i]) + 1])

crc8(data) == crc8Loop(data, 1, 0)

\* ------------------------------------------------------------------------
\* Frames and the packet encoder
\* ------------------------------------------------------------------------

FRAME_DATA_SIZE == 10
RS_MIN_PARITY_FRAMES == 4

Max(a, b) == IF a >= b THEN a ELSE b

\* Math.ceil(rawBytes.length / FRAME_DATA_SIZE)
dataFramesFor(length) == (length + FRAME_DATA_SIZE - 1) \div FRAME_DATA_SIZE

\* a parity count that rounds the fifth part down
parityFramesForFloor(dataFramesNeeded) ==
  Max(RS_MIN_PARITY_FRAMES, dataFramesNeeded \div 4)

\* Math.max(RS_MIN_PARITY_FRAMES, Math.ceil(d * (1 - 0.8) / 0.8)); in IEEE
\* doubles the quotient is d/4 less at most a few units in the last place,
\* so its ceiling is that of d/4
parityFramesFor(dataFramesNeeded) ==
  Max(RS_MIN_PARITY_FRAMES, (dataFramesNeeded + 3) \div 4)

\* paddedData[frameIdx * FRAME_DATA_SIZE + bytePos] for frameIdx < dataFrames
RECURSIVE columnOf(_, _, _, _, _)
columnOf(paddedData, dataFramesNeeded, bytePos, frameIdx, column) ==
  IF frameIdx >= dataFramesNeeded THEN column
  ELSE columnOf(paddedData, dataFramesNeeded, bytePos, frameIdx + 1,
         Append(column, paddedData[frameIdx * FRAME_DATA_SIZE + bytePos + 1]))

RECURSIVE encodedColumnsLoop(_, _, _, _, _)
encodedColumnsLoop(paddedData, dataFramesNeeded, parityFrames, bytePos, cols) ==
  IF bytePos >= FRAME_DATA_SIZE THEN cols
  ELSE encodedColumnsLoop(paddedData, dataFramesNeeded, parityFrames,
         bytePos + 1,
         Append(cols,
                rsEncode(columnOf(paddedData, dataFramesNeeded, bytePos, 0,
                                  <<>>),
                         parityFrames)))

\* a chunk that takes the columns from the last to the first
dataChunkOfReversed(encodedColumns, frameIdx, bytePos, dataChunk) ==
  [b \in 1..FRAME_DATA_SIZE |->
     encodedColumns[FRAME_DATA_SIZE + 1 - b][frameIdx + 1]]

\* dataChunk[bytePos] = encodedColumns[bytePos][frameIdx]
RECURSIVE dataChunkOf(_, _, _, _)
dataChunkOf(encodedColumns, frameIdx, bytePos, dataChunk) ==
  IF bytePos >= FRAME_DATA_SIZE THEN dataChunk
  ELSE dataChunkOf(encodedColumns, frameIdx, bytePos + 1,
         Append(dataChunk, encodedColumns[bytePos + 1][frameIdx + 1]))

\* a frame numbered from one
AuroraFrameFromOne(frameIndex, totalFrames, sequenceId, dataChunk) ==
  [frameIndex |-> frameIndex + 1, totalFrames |-> totalFrames,
   sequenceId |-> sequenceId, dataChunk |-> dataChunk,
   checksum |-> crc8(dataChunk)]

AuroraFrame(frameIndex, totalFrames, sequenceId, dataChunk) ==
  [frameIndex |-> frameIndex, totalFrames |-> totalFrames,
   sequenceId |-> sequenceId, dataChunk |-> dataChunk,
   checksum |-> crc8(dataChunk)]

\* x & 0xff and x >> 8 of a 32-bit integer
Low8(x) == x % 256

ShiftRight8(x) == x \div 256

\* result[4 + i] = frame.dataChunk[i] || 0, stored in a Uint8Array
chunkByte(dataChunk, i) ==
  IF i < Len(dataChunk) THEN Low8(dataChunk[i + 1]) ELSE 0

\* serializeFrame: the 16 bytes of a frame
serializeFrame(frame) ==
  <<Low8(frame.frameIndex), Low8(frame.totalFrames),
    Low8(ShiftRight8(frame.sequenceId)), Low8(frame.sequenceId)>>
  \o [i \in 1..FRAME_DATA_SIZE |-> chunkByte(frame.dataChunk, i - 1)]
  \o <<Low8(frame.checksum), 0>>

\* a reader that takes the sequence id low byte first
deserializeFrameLowFirst(data) ==
  [frameIndex |-> data[1], totalFrames |-> data[2],
   sequenceId |-> data[4] * 256 + data[3],
   dataChunk |-> SubSeq(data, 5, 4 + FRAME_DATA_SIZE),
   checksum |-> data[15]]

\* deserializeFrame: (data[2] << 8) | data[3] of two bytes is their sum
deserializeFrame(data) ==
  [frameIndex |-> data[1], totalFrames |-> data[2],
   sequenceId |-> data[3] * 256 + data[4],
   dataChunk |-> SubSeq(data, 5, 4 + FRAME_DATA_SIZE),
   checksum |-> data[15]]

\* verifyFrameChecksum
verifyFrameChecksum(frame) == crc8(frame.dataChunk) = frame.checksum

RECURSIVE framesLoop(_, _, _, _, _)
framesLoop(encodedColumns, totalFrames, sequenceId, frameIdx, frames) ==
  IF frameIdx >= totalFrames THEN frames
  ELSE framesLoop(encodedColumns, totalFrames, sequenceId, frameIdx + 1,
         Append(frames,
                AuroraFrame(frameIdx, totalFrames, sequenceId,
                            dataChunkOf(encodedColumns, frameIdx, 0, <<>>))))

\* encodeData(str); sequenceId is what generateSequenceId() drew
encodeData(str, sequenceId) ==
  LET rawBytes == textEncode(str)
      dataFramesNeeded == dataFramesFor(Len(rawBytes))
      parityFrames == parityFramesFor(dataFramesNeeded)
      totalFrames == dataFramesNeeded + parityFrames
      paddedLength == dataFramesNeeded * FRAME_DATA_SIZE
      paddedData == rawBytes \o Zeros(paddedLength - Len(rawBytes))
      encodedColumns ==
        encodedColumnsLoop(paddedData, dataFramesNeeded, parityFrames, 0, <<>>)
  IN  [sequenceId |-> sequenceId,
       totalFrames |-> totalFrames,
       dataFrames |-> dataFramesNeeded,
       parityFrames |-> parityFrames,
       frames |-> framesLoop(encodedColumns, totalFrames, sequenceId, 0, <<>>),
       originalDataLength |-> Len(rawBytes)]

\* ------------------------------------------------------------------------
\* FrameDecoder
\* ------------------------------------------------------------------------

EmptyState ==
  [sequenceId |-> Null, totalFrames |-> Null, dataFrames |-> Null,
   parityFrames |-> Null, collectedFrames |-> <<>>,
   originalDataLength |-> Null]

\* x || 0
OrZero(x) == IF x = Null THEN 0 ELSE x

\* Math.ceil(totalFrames * 0.8); the double product of an integer below
\* 2^16 and 0.8 rounds to the integer when 4 * totalFrames / 5 is one
Ceil80(totalFrames) == (4 * totalFrames + 4) \div 5

\* the four assignments that follow a first frame or a reset
Adopt(st, frame) ==
  [st EXCEPT !.sequenceId = frame.sequenceId,
             !.totalFrames = frame.totalFrames,
             !.dataFrames = Ceil80(frame.totalFrames),
             !.parityFrames = frame.totalFrames - Ceil80(frame.totalFrames)]

\* a store that forgets what it held
MapSetAlone(map, key, frame) == [k \in {key} |-> frame]

\* collectedFrames.set(key, frame)
MapSet(map, key, frame) ==
  [k \in (DOMAIN map) \cup {key} |-> IF k = key THEN frame ELSE map[k]]

\* a range check that admits frameIndex = totalFrames
IndexInvalidOffByOne(frameIndex, totalFrames) ==
  frameIndex < 0 \/ frameIndex > OrZero(totalFrames)

\* an addFrame that adopts a new sequence without calling reset()
addFrameKeepsFrames(st, frame) ==
  LET current == IF frame.sequenceId # st.sequenceId
                 THEN Adopt(st, frame)
                 ELSE st
  IN  IF frame.frameIndex < 0
         \/ frame.frameIndex >= OrZero(current.totalFrames)
      THEN [state |-> current, value |-> FALSE]
      ELSE [state |-> [current EXCEPT !.collectedFrames =
                         [k \in (DOMAIN current.collectedFrames)
                                  \cup {frame.frameIndex} |->
                            IF k = frame.frameIndex THEN frame
                            ELSE current.collectedFrames[k]]],
            value |-> TRUE]

\* frame.frameIndex < 0 || frame.frameIndex >= (totalFrames || 0)
IndexInvalid(frameIndex, totalFrames) ==
  frameIndex < 0 \/ frameIndex >= OrZero(totalFrames)

\* addFrame: the state it leaves and the boolean it returns
addFrame(st, frame) ==
  LET first == IF st.sequenceId = Null THEN Adopt(st, frame) ELSE st
      current == IF frame.sequenceId # first.sequenceId
                 THEN Adopt(EmptyState, frame)
                 ELSE first
  IN  IF IndexInvalid(frame.frameIndex, current.totalFrames)
      THEN [state |-> current, value |-> FALSE]
      ELSE [state |-> [current EXCEPT !.collectedFrames =
                         MapSet(current.collectedFrames, frame.frameIndex,
                                frame)],
            value |-> TRUE]

\* a progress report that wants one frame more than D
getProgressStrict(st) ==
  [collected |-> Cardinality(DOMAIN st.collectedFrames),
   required |-> OrZero(st.dataFrames),
   total |-> OrZero(st.totalFrames),
   canDecode |-> Cardinality(DOMAIN st.collectedFrames)
                   > OrZero(st.dataFrames)]

\* getProgress without the percentage, which is for display only
getProgress(st) ==
  [collected |-> Cardinality(DOMAIN st.collectedFrames),
   required |-> OrZero(st.dataFrames),
   total |-> OrZero(st.totalFrames),
   canDecode |-> Cardinality(DOMAIN st.collectedFrames)
                   >= OrZero(st.dataFrames)]

RECURSIVE missingLoop(_, _, _, _)
missingLoop(held, total, i, missing) ==
  IF i >= total THEN missing
  ELSE missingLoop(held, total, i + 1,
                   IF i \in held THEN missing ELSE Append(missing, i))

getMissingIndices(st) ==
  missingLoop(DOMAIN st.collectedFrames, OrZero(st.totalFrames), 0, <<>>)

\* one column: the byte of every frame index, null for a frame not held
RECURSIVE decodeColumn(_, _, _, _, _)
decodeColumn(collectedFrames, totalFrames, bytePos, frameIdx, column) ==
  IF frameIdx >= totalFrames THEN column
  ELSE decodeColumn(collectedFrames, totalFrames, bytePos, frameIdx + 1,
         Append(column,
                IF frameIdx \in DOMAIN collectedFrames
                THEN collectedFrames[frameIdx].dataChunk[bytePos + 1]
                ELSE Null))

\* the loop over the byte positions; it stops at the first column for which
\* rsDecode returns null ("null") or raises ("throw"); calls counts the
\* rsDecode calls made
RECURSIVE decodeColumnsLoop(_, _, _, _, _, _)
RECURSIVE decodeColumnsNext(_, _, _, _, _, _, _)
decodeColumnsLoop(st, totalFrames, dataFrames, parityFrames, bytePos, cols) ==
  IF bytePos >= FRAME_DATA_SIZE
  THEN [tag |-> "bytes", bytePos |-> bytePos, cols |-> cols,
        calls |-> bytePos]
  ELSE decodeColumnsNext(st, totalFrames, dataFrames, parityFrames, bytePos,
         cols,
         rsDecode(decodeColumn(st.collectedFrames, totalFrames, bytePos, 0,
                               <<>>),
                  dataFrames, parityFrames))

decodeColumnsNext(st, totalFrames, dataFrames, parityFrames, bytePos, cols, decoded) ==
  IF decoded.tag # "bytes"
  THEN [tag |-> decoded.tag, bytePos |-> bytePos, cols |-> <<>>,
        calls |-> bytePos + 1]
  ELSE decodeColumnsLoop(st, totalFrames, dataFrames, parityFrames,
                         bytePos + 1, Append(cols, decoded.bytes))

\* decodedData[frameIdx * FRAME_DATA_SIZE + bytePos] =
\*   decodedColumns[bytePos][frameIdx]
RECURSIVE decodedDataLoop(_, _, _, _)
decodedDataLoop(decodedColumns, dataFrames, idx, decodedData) ==
  IF idx >= dataFrames * FRAME_DATA_SIZE THEN decodedData
  ELSE decodedDataLoop(decodedColumns, dataFrames, idx + 1,
         Append(decodedData,
                decodedColumns[(idx % FRAME_DATA_SIZE) + 1]
                              [(idx \div FRAME_DATA_SIZE) + 1]))

NoError == [kind |-> "none", a |-> 0, b |-> 0]

DecodeStats(total, collected, missing, recovered) ==
  [totalFrames |-> total, collectedFrames |-> collected,
   missingFrames |-> missing, recoveredFrames |-> recovered]

\* the three returns that follow the column loop: a column rsDecode gave
\* null for, the catch block, and success
decodeFinish(st, progress, missing, columns) ==
  IF columns.tag = "null"
  THEN [success |-> FALSE, data |-> <<>>,
        error |-> [kind |-> "column", a |-> columns.bytePos, b |-> 0],
        stats |-> DecodeStats(st.totalFrames, progress.collected, missing, 0),
        rsCalls |-> columns.calls]
  ELSE IF columns.tag = "throw"
  THEN [success |-> FALSE, data |-> <<>>,
        error |-> [kind |-> "exception", a |-> 0, b |-> 0],
        stats |-> DecodeStats(progress.total, progress.collected, missing, 0),
        rsCalls |-> columns.calls]
  ELSE [success |-> TRUE,
        data |-> trimAtNull(textDecode(
                   decodedDataLoop(columns.cols, OrZero(st.dataFrames), 0,
                                   <<>>))),
        error |-> NoError,
        stats |-> DecodeStats(st.totalFrames, progress.collected, missing,
                              Len(missing)),
        rsCalls |-> columns.calls]

\* decode() once getProgress() has answered
decodeGate(st, progress, missing) ==
  IF ~progress.canDecode
  THEN [success |-> FALSE, data |-> <<>>,
        error |-> [kind |-> "insufficient", a |-> progress.collected,
                   b |-> progress.required],
        stats |-> DecodeStats(progress.total, progress.collected, missing, 0),
        rsCalls |-> 0]
  ELSE decodeFinish(st, progress, missing,
         decodeColumnsLoop(st, OrZero(st.totalFrames), OrZero(st.dataFrames),
                           OrZero(st.parityFrames), 0, <<>>))

\* decode(): the DecodeResult, and rsCalls, the rsDecode calls it made.
\* totalFrames!, dataFrames! and parityFrames! of an empty decoder are null,
\* which the loops and rsDecode use as 0
decode(st) == decodeGate(st, getProgress(st), getMissingIndices(st))

\* ------------------------------------------------------------------------
\* Sender, channel and receiver
\* ------------------------------------------------------------------------

\* 'A' and the euro sign, one and three bytes of UTF-8
Chars == {65, 8364}

Inputs == SeqsUpTo(Chars, MaxChars)

\* 0x1234 and 0x9ABC
SeqIds == {4660, 39612}

NoPacket ==
  [sequenceId |-> Null, totalFrames |-> 0, dataFrames |-> 0,
   parityFrames |-> 0, frames |-> <<>>, originalDataLength |-> 0]

\* frames that are not the sender's: of a packet of ForeignTotal frames, with
\* either sequence id, at a frame index inside the packet, at one below and
\* at one above it
ForeignTotal == 8

ForeignFrames ==
  {AuroraFrame(i, ForeignTotal, q, Zeros(FRAME_DATA_SIZE)) :
     i \in {0 - 1, 0, ForeignTotal}, q \in SeqIds}

PacketFrames(p) == {p.frames[i] : i \in 1..Len(p.frames)}

NoFrame ==
  [frameIndex |-> 0, totalFrames |-> Null, sequenceId |-> Null,
   dataChunk |-> <<>>, checksum |-> Null]

NoResult ==
  [success |-> FALSE, data |-> <<>>, error |-> NoError,
   stats |-> [totalFrames |-> Null, collectedFrames |-> Null,
              missingFrames |-> <<>>, recoveredFrames |-> Null],
   rsCalls |-> 0]

NoProgress ==
  [collected |-> Null, required |-> Null, total |-> Null,
   canDecode |-> FALSE]

\* ret: the last call made, its frame argument and what it returned
NoRet ==
  [op |-> "none", frame |-> NoFrame, value |-> FALSE, result |-> NoResult,
   progress |-> NoProgress]

\* fed: the frames handed to addFrame since the decoder was constructed or
\* reset(), as long as they are frames of one packet (one sequence id, one
\* frame count, every frame index inside it and carried by one frame);
\* mixed once they are not
NoFed == [mixed |-> FALSE, frames |-> {}]

OnePacket(frames) ==
  /\ \A f \in frames : f.frameIndex >= 0 /\ f.frameIndex < f.totalFrames
  /\ \A f, g \in frames :
       /\ f.sequenceId = g.sequenceId
       /\ f.totalFrames = g.totalFrames
       /\ f.frameIndex = g.frameIndex => f = g

Feed(history, frame) ==
  IF ~history.mixed /\ OnePacket(history.frames \cup {frame})
  THEN [mixed |-> FALSE, frames |-> history.frames \cup {frame}]
  ELSE [mixed |-> TRUE, frames |-> {}]

\* call: the last call of a function that has no state of its own, with its
\* arguments and what it returned
NoCall == [op |-> "none"]

\* ui: the scanning side of AuroraCodeApp. Of the component's state: mode,
\* scanStatus, decodedData, errorMessage, cameraReady; of its refs:
\* streamRef and scanAnimationRef (decoderRef.current is the variable
\* state). Of the browser: requests, the getUserMedia calls made so far,
\* and waiting, those not yet answered; live, the streams whose tracks
\* run; srcObject, the stream whose loadedmetadata event the video element
\* is yet to deliver; loops, the processFrame loops with a callback
\* requested (a loop is named by its stream, and so is its animation frame
\* handle); timers, the decode callbacks set and not yet run. afterReset:
\* resetScan has run and startCamera has not since. The counters kept for
\* display only are left out
NoScan ==
  [mode |-> "display", scanStatus |-> "idle", decodedData |-> <<>>,
   errorMessage |-> "", cameraReady |-> FALSE, streamRef |-> Null,
   scanAnimationRef |-> Null, requests |-> 0, waiting |-> {}, live |-> {},
   srcObject |-> Null, loops |-> {}, timers |-> 0, afterReset |-> FALSE]

Init ==
  /\ input = <<>>
  /\ packet = NoPacket
  /\ state = EmptyState
  /\ fed = NoFed
  /\ ret = NoRet
  /\ rs = RsIdle
  /\ call = NoCall
  /\ ui = NoScan

\* the sender encodes its one message
Encode(str, sequenceId) ==
  /\ packet = NoPacket
  /\ input' = str
  /\ packet' = encodeData(str, sequenceId)
  /\ ret' = [NoRet EXCEPT !.op = "encodeData"]
  /\ UNCHANGED <<state, fed, rs, call, ui>>

\* the receiver is handed one frame
AddFrame(frame) ==
  /\ LET r == addFrame(state, frame)
     IN  /\ state' = r.state
         /\ ret' = [NoRet EXCEPT !.op = "addFrame", !.frame = frame,
                                 !.value = r.value]
  /\ fed' = Feed(fed, frame)
  /\ UNCHANGED <<input, packet, rs, call, ui>>

Decode ==
  /\ ret' = [NoRet EXCEPT !.op = "decode", !.result = decode(state)]
  /\ UNCHANGED <<input, packet, state, fed, rs, call, ui>>

GetProgress ==
  /\ ret' = [NoRet EXCEPT !.op = "getProgress",
                          !.progress = getProgress(state)]
  /\ UNCHANGED <<input, packet, state, fed, rs, call, ui>>

Reset ==
  /\ state' = EmptyState
  /\ fed' = NoFed
  /\ ret' = [NoRet EXCEPT !.op = "reset"]
  /\ UNCHANGED <<input, packet, rs, call, ui>>

Next ==
  \/ \E str \in Inputs, sequenceId \in SeqIds : Encode(str, sequenceId)
  \/ \E frame \in PacketFrames(packet) \cup ForeignFrames : AddFrame(frame)
  \/ Decode
  \/ GetProgress
  \/ Reset

Spec == Init /\ [][Next]_vars

\* the codec on its own: every short data sequence and parity count
InitRS ==
  /\ input = <<>>
  /\ packet = NoPacket
  /\ state = EmptyState
  /\ fed = NoFed
  /\ ret = NoRet
  /\ call = NoCall
  /\ ui = NoScan
  /\ rs \in {[RsIdle EXCEPT !.pc = "start", !.data = d, !.parityCount = p] :
               d \in SeqsUpTo(RsBytes, MaxK), p \in 1..MaxParity}

SpecRS == InitRS /\ [][NextRS]_vars

\* ------------------------------------------------------------------------
\* rsDecode on longer codewords
\* ------------------------------------------------------------------------

ForneyLength == 6
ForneyParity == 4

\* what was sent: some data of ForneyLength bytes, encoded
ForneyData == {[i \in 1..ForneyLength |-> 65 + i], [i \in 1..ForneyLength |-> IF i <= 2 THEN 255 ELSE IF i <= 4 THEN 65 ELSE 0]}

\* the symbols at the places of a set lost: null there
Lose(codeword, lost) ==
  [i \in 1..Len(codeword) |-> IF i \in lost THEN Null ELSE codeword[i]]

\* up to one more place lost than there are parity symbols
LostPlaces == {lost \in SUBSET (1..(ForneyLength + ForneyParity)) : Cardinality(lost) <= ForneyParity + 1}

\* the caller hands the codeword with its lost symbols to rsDecode
DecodeLost(data, lost) ==
  /\ call' = [op |-> "rsDecode",
              data |-> Lose(rsEncode(data, ForneyParity), lost),
              dataLength |-> ForneyLength, parityCount |-> ForneyParity,
              result |-> rsDecode(Lose(rsEncode(data, ForneyParity), lost),
                                  ForneyLength, ForneyParity)]
  /\ UNCHANGED <<input, packet, state, fed, ret, rs, ui>>

NextForney ==
  /\ call.op = "none"
  /\ \E data \in ForneyData, lost \in LostPlaces : DecodeLost(data, lost)

SpecForney == Init /\ [][NextForney]_vars

\* ------------------------------------------------------------------------
\* encodeData on long messages
\* ------------------------------------------------------------------------

\* the longest run of one character encoded in full, and the longest message
\* whose frame counts are computed
MaxRun == 30
MaxLength == 2100

\* c repeated n times
Repeat(c, n) == [i \in 1..n |-> c]

\* what encodeData computes from rawBytes.length alone: the counts of the
\* packet it returns
encodeDataCounts(length) ==
  LET dataFramesNeeded == dataFramesFor(length)
      parityFrames == parityFramesFor(dataFramesNeeded)
  IN  [totalFrames |-> dataFramesNeeded + parityFrames,
       dataFrames |-> dataFramesNeeded,
       parityFrames |-> parityFrames,
       originalDataLength |-> length]

\* encodeData of a run of one character: the whole packet
EncodeRun(c, n, sequenceId) ==
  /\ call.op = "none"
  /\ call' = [op |-> "encodeData",
              length |-> Len(textEncode(Repeat(c, n))),
              packet |-> encodeData(Repeat(c, n), sequenceId)]
  /\ UNCHANGED <<input, packet, state, fed, ret, rs, ui>>

\* encodeData of a message of length bytes: the counts of its packet, which
\* no byte of the message changes
EncodeCounts(length) ==
  /\ call.op = "none"
  /\ call' = [op |-> "encodeDataCounts",
              length |-> length,
              packet |-> encodeDataCounts(length)]
  /\ UNCHANGED <<input, packet, state, fed, ret, rs, ui>>

NextSize ==
  \/ \E c \in Chars, n \in 0..MaxRun, sequenceId \in SeqIds :
       EncodeRun(c, n, sequenceId)
  \/ \E length \in 0..MaxLength : EncodeCounts(length)

SpecSize == Init /\ [][NextSize]_vars

\* ------------------------------------------------------------------------
\* The field operations on their own
\* ------------------------------------------------------------------------

\* a third operand goes over 0..MaxThird and 255-MaxThird..255
MaxThird == 3

GfElements == 0..(GF_SIZE - 1)

GfThird == (0..MaxThird) \cup ((GF_SIZE - 1 - MaxThird)..(GF_SIZE - 1))

\* a caller applies the field operations to a and b; Null where gfDiv or
\* gfInverse throws
GfApply(a, b) ==
  /\ call' = [op |-> "gf", a |-> a, b |-> b,
              sum |-> gfAdd(a, b),
              product |-> gfMul(a, b),
              quotient |-> IF gfDivThrows(a, b) THEN Null ELSE gfDiv(a, b),
              inverse |-> IF gfInverseThrows(a) THEN Null ELSE gfInverse(a),
              power |-> gfPow(a, GF_SIZE - 1)]
  /\ UNCHANGED <<input, packet, state, fed, ret, rs, ui>>

\* one call per behaviour
NextGF ==
  /\ call.op = "none"
  /\ \E a \in GfElements, b \in GfElements : GfApply(a, b)

SpecGF == Init /\ [][NextGF]_vars

\* ------------------------------------------------------------------------
\* The frame codec on its own
\* ------------------------------------------------------------------------

\* field values at and beyond the ends of a byte and of 16 bits
IndexValues == {0, 1, 255, 256}
TotalValues == {0, 5, 255, 257}
SequenceValues == {0, 4660, 39612, 65535, 65536}
ChecksumValues == {0, 172, 255}

\* chunks of 10 bytes and one of 3
ChunkValues ==
  {Zeros(FRAME_DATA_SIZE), Repeat(255, FRAME_DATA_SIZE),
   <<65, 226, 130, 172, 0, 1, 2, 3, 4, 5>>, <<65, 66, 67>>}

CodecFrames ==
  {[frameIndex |-> i, totalFrames |-> n, sequenceId |-> q, dataChunk |-> d,
    checksum |-> k] :
     i \in IndexValues, n \in TotalValues, q \in SequenceValues,
     d \in ChunkValues, k \in ChecksumValues}

\* a caller serializes a frame and deserializes the bytes
FrameCodec(frame) ==
  /\ call' = [op |-> "frameCodec", frame |-> frame,
              bytes |-> serializeFrame(frame),
              back |-> deserializeFrame(serializeFrame(frame))]
  /\ UNCHANGED <<input, packet, state, fed, ret, rs, ui>>

\* one call per behaviour
NextCodec ==
  /\ call.op = "none"
  /\ \E frame \in CodecFrames : FrameCodec(frame)

SpecCodec == Init /\ [][NextCodec]_vars

\* ------------------------------------------------------------------------
\* IEEE 754 double arithmetic, as weightedColorDistance uses it
\* ------------------------------------------------------------------------

\* A natural number of any size is the sequence of its digits in base 2^13,
\* lowest first, without leading zeros. The doubles of
\* weightedColorDistance are all multiples of 2^-56 below 2^17: a double is
\* the natural number of its 2^-56 units.
LimbBits == 13
Limb == 2 ^ LimbBits

\* the one element of a set of one: TheOne({F(v) : v \in {e}}) is F(e) with e
\* evaluated once
TheOne(S) == CHOOSE v \in S : TRUE

\* the digit at place i (from 1), zero beyond the last
LimbAt(a, i) == IF i >= 1 /\ i <= Len(a) THEN a[i] ELSE 0

\* without its leading zero digits
RECURSIVE BigTrim(_)
BigTrim(a) ==
  IF a = <<>> \/ a[Len(a)] # 0 THEN a ELSE BigTrim(SubSeq(a, 1, Len(a) - 1))

\* the digits of a sequence of column sums: carries taken up the places
RECURSIVE BigCarry(_, _, _, _)
BigCarry(columns, i, carry, acc) ==
  IF i > Len(columns)
  THEN IF carry = 0 THEN BigTrim(acc)
       ELSE BigCarry(columns \o <<0>>, i, carry, acc)
  ELSE BigCarry(columns, i + 1, (columns[i] + carry) \div Limb,
                Append(acc, (columns[i] + carry) % Limb))

BigOfInt(n) == BigCarry(<<n>>, 1, 0, <<>>)

BigAdd(a, b) ==
  TheOne({BigCarry(columns, 1, 0, <<>>) :
    columns \in {<<>> \o [i \in 1..Max(Len(a), Len(b)) |->
                             LimbAt(a, i) + LimbAt(b, i)]}})

\* the sum of a[i] * b[k + 1 - i] over the places i of a
RECURSIVE BigColumn(_, _, _, _)
BigColumn(a, b, k, i) ==
  IF i > Len(a) THEN 0
  ELSE a[i] * LimbAt(b, k + 1 - i) + BigColumn(a, b, k, i + 1)

BigMul(a, b) ==
  IF a = <<>> \/ b = <<>> THEN <<>>
  ELSE TheOne({BigCarry(columns, 1, 0, <<>>) :
         columns \in {<<>> \o [k \in 1..(Len(a) + Len(b) - 1) |->
                                  BigColumn(a, b, k, 1)]}})

\* a < b, from the highest place down
RECURSIVE BigLessFrom(_, _, _)
BigLessFrom(a, b, i) ==
  IF i = 0 THEN FALSE
  ELSE IF a[i] # b[i] THEN a[i] < b[i]
  ELSE BigLessFrom(a, b, i - 1)

BigLess(a, b) ==
  IF Len(a) # Len(b) THEN Len(a) < Len(b) ELSE BigLessFrom(a, b, Len(a))

\* the number of binary digits of a digit, and of a number
RECURSIVE LimbLength(_)
LimbLength(x) == IF x = 0 THEN 0 ELSE 1 + LimbLength(x \div 2)

BitLength(a) ==
  IF a = <<>> THEN 0 ELSE LimbBits * (Len(a) - 1) + LimbLength(a[Len(a)])

\* a shift by d binary digits is one by Places(d) digits and Within(d)
\* binary digits
Places(d) == d \div LimbBits
Within(d) == d % LimbBits

\* floor(a / 2^d)
BigShiftRight(a, d) ==
  BigTrim([i \in 1..Len(a) |->
     (LimbAt(a, i + Places(d)) \div (2 ^ Within(d)))
     + (LimbAt(a, i + 1 + Places(d)) % (2 ^ Within(d)))
         * (2 ^ (LimbBits - Within(d)))])

\* a * 2^d
BigShiftLeft(a, d) ==
  BigTrim([i \in 1..(Len(a) + 1 + Places(d)) |->
     (LimbAt(a, i - Places(d)) % (2 ^ (LimbBits - Within(d))))
         * (2 ^ Within(d))
     + (LimbAt(a, i - 1 - Places(d)) \div (2 ^ (LimbBits - Within(d))))])

\* binary digit k (from 0) of a
BigBit(a, k) == (LimbAt(a, 1 + Places(k)) \div (2 ^ Within(k))) % 2

\* the number q of 53 binary digits and its d dropped digits, rounded to the
\* nearest, a tie to the even q
RoundedUp(v, q, d) ==
  IF BigBit(v, d - 1) = 1
     /\ (BigBit(v, d) = 1 \/ BigShiftLeft(BigShiftRight(v, d - 1), d - 1) # v)
  THEN BigAdd(q, <<1>>) ELSE q

\* the double nearest to the number v of units (round to nearest, ties to
\* even): a double has 53 binary digits
RoundToDouble(v) ==
  IF BitLength(v) <= 53 THEN v
  ELSE TheOne({BigShiftLeft(q, BitLength(v) - 53) :
         q \in {TheOne({RoundedUp(v, floor, BitLength(v) - 53) :
                  floor \in {BigShiftRight(v, BitLength(v) - 53)}})}})

\* the doubles that the literals 0.3, 0.59 and 0.11 denote: 53 binary digits
\* and the power of two they are divided by
Double03 == [digits |-> <<4915, 6553, 3276, 1638, 1>>, scale |-> 54]
Double059 == [digits |-> <<6881, 4259, 4587, 1474, 1>>, scale |-> 53]
Double011 == [digits |-> <<7209, 5242, 7536, 6225, 1>>, scale |-> 56]

\* n * c in doubles, n a whole number below 2^17 and c one of the literals
DoubleTimes(n, c) ==
  TheOne({BigShiftLeft(double, 56 - c.scale) :
    double \in {TheOne({RoundToDouble(product) :
                 product \in {TheOne({BigMul(digits, c.digits) :
                                digits \in {BigOfInt(n)}})}})}})

\* x + y in doubles
DoublePlus(x, y) == TheOne({RoundToDouble(sum) : sum \in {BigAdd(x, y)}})

\* floor(sqrt(n)): the digits of the root from the highest down, each kept
\* when the square stays within n
StrictRoot(n, root, candidate) ==
  IF TheOne({BigLess(n, square) : square \in {BigMul(candidate, candidate)}})
  THEN root ELSE candidate

\* the binary digits k down to low of the root
RECURSIVE BigRootBits(_, _, _, _)
BigRootBits(n, root, k, low) ==
  IF k < low THEN root
  ELSE TheOne({BigRootBits(n, next, k - 1, low) :
         next \in {TheOne({StrictRoot(n, root, candidate) :
                    candidate \in {BigAdd(root, BigShiftLeft(<<1>>, k))}})}})

\* the digits i down to 1 of the root
RECURSIVE BigRootLimbs(_, _, _)
BigRootLimbs(n, root, i) ==
  IF i < 1 THEN root
  ELSE TheOne({BigRootLimbs(n, next, i - 1) :
         next \in {BigRootBits(n, root, LimbBits * i - 1,
                               LimbBits * (i - 1))}})

BigRoot(n) == BigRootLimbs(n, <<>>, 1 + Places(BitLength(n) \div 2))

\* the root q, of more than 53 binary digits, rounded to 53: the root of a
\* double is never half way between two doubles
RootRounded(q) ==
  TheOne({BigShiftLeft(double, BitLength(q) - 53) :
    double \in {TheOne({BigAdd(floor, BigOfInt(BigBit(q, BitLength(q) - 54))) :
                 floor \in {BigShiftRight(q, BitLength(q) - 53)}})}})

\* Math.sqrt(x): the double nearest to the root. The root of x units is
\* the root of x * 2^56, in units
DoubleSqrt(x) ==
  IF x = <<>> THEN <<>>
  ELSE TheOne({RootRounded(q) :
         q \in {TheOne({BigRoot(n) : n \in {BigShiftLeft(x, 56)}})}})

\* Infinity: above every double
Infinity == <<Limb>>

\* x < y in doubles
DoubleLess(x, y) == x # Infinity /\ (y = Infinity \/ BigLess(x, y))

\* ------------------------------------------------------------------------
\* The colour palette
\* ------------------------------------------------------------------------

RGB(r, g, b) == [r |-> r, g |-> g, b |-> b]

AURORA_PALETTE == <<RGB(20, 60, 40), RGB(30, 90, 50), RGB(40, 120, 60), RGB(50, 150, 70), RGB(40, 160, 120), RGB(50, 180, 150), RGB(60, 200, 180), RGB(80, 220, 200), RGB(80, 140, 200), RGB(100, 120, 200), RGB(130, 100, 200), RGB(160, 90, 200), RGB(180, 100, 180), RGB(200, 110, 160), RGB(220, 130, 150), RGB(240, 160, 160)>>

\* Math.sqrt(dr * dr * 0.3 + dg * dg * 0.59 + db * db * 0.11), each
\* product and each sum rounded to a double, from left to right
weightedSum(dr, dg, db) ==
  TheOne({DoublePlus(redGreen, blue) :
    redGreen \in {TheOne({DoublePlus(red, green) :
                   red \in {DoubleTimes(dr * dr, Double03)},
                   green \in {DoubleTimes(dg * dg, Double059)}})},
    blue \in {DoubleTimes(db * db, Double011)}})

weightedColorDistance(c1, c2) ==
  TheOne({DoubleSqrt(sum) :
    sum \in {weightedSum(c1.r - c2.r, c1.g - c2.g, c1.b - c2.b)}})

\* one turn of the loop of findClosestPaletteIndex, at palette place i + 1
closestStep(best, i, dist) ==
  IF DoubleLess(dist, best.minDistance)
  THEN [minDistance |-> dist, bestIndex |-> i]
  ELSE best

RECURSIVE closestLoop(_, _, _)
closestLoop(color, i, best) ==
  IF i >= Len(AURORA_PALETTE) THEN best
  ELSE TheOne({closestLoop(color, i + 1, next) :
         next \in {TheOne({closestStep(best, i, dist) :
           dist \in {weightedColorDistance(color, AURORA_PALETTE[i + 1])}})}})

\* findClosestPaletteIndex: minDistance = Infinity, bestIndex = 0, then the
\* loop
findClosestPaletteIndex(color) ==
  closestLoop(color, 0, [minDistance |-> Infinity, bestIndex |-> 0]).bestIndex

\* the colours a camera may hand over: the palette's own, colours at the
\* same weighted distance of two palette entries, and the corners
PaletteColours == {AURORA_PALETTE[i] : i \in 1..Len(AURORA_PALETTE)}
TiedColours == {RGB(0, 77, 81), RGB(0, 110, 70), RGB(1, 102, 196), RGB(3, 108, 94), RGB(5, 94, 208)}
OtherColours == {RGB(0, 0, 0), RGB(128, 128, 128), RGB(255, 255, 255)}
Colours == PaletteColours \cup TiedColours \cup OtherColours

ClosestIndex(color) ==
  /\ call' = [op |-> "findClosestPaletteIndex", color |-> color,
              index |-> findClosestPaletteIndex(color)]
  /\ UNCHANGED <<input, packet, state, fed, ret, rs, ui>>

Distance(c1, c2) ==
  /\ call' = [op |-> "weightedColorDistance", c1 |-> c1, c2 |-> c2,
              dist |-> weightedColorDistance(c1, c2)]
  /\ UNCHANGED <<input, packet, state, fed, ret, rs, ui>>

NextPalette ==
  /\ call.op = "none"
  /\ \/ \E color \in Colours : ClosestIndex(color)
     \/ \E c1 \in TiedColours \cup OtherColours, c2 \in PaletteColours :
          Distance(c1, c2)

SpecPalette == Init /\ [][NextPalette]_vars

\* ------------------------------------------------------------------------
\* The band codec and the detector
\* ------------------------------------------------------------------------

NUM_BANDS == 32
FRAME_TOTAL_SIZE == 16

\* byteToPaletteIndices: [(byte >> 4) & 0x0f, byte & 0x0f]
byteToPaletteIndices(byte) == <<(byte \div 16) % 16, byte % 16>>

\* frameToVisual(frame).bandIndices: two indices for each serialized byte
frameToVisual(frame) ==
  [band \in 1..(2 * FRAME_TOTAL_SIZE) |->
     byteToPaletteIndices(serializeFrame(frame)[(band + 1) \div 2])
       [2 - (band % 2)]]

\* a band decoder that takes the low nibble first
bandIndicesToBytesLowFirst(bandIndices) ==
  [i \in 1..FRAME_TOTAL_SIZE |->
     (bandIndices[2 * i] % 16) * 16 + (bandIndices[2 * i - 1] % 16)]

\* bandIndicesToBytes: ((high & 0x0f) << 4) | (low & 0x0f) of each pair
bandIndicesToBytes(bandIndices) ==
  [i \in 1..FRAME_TOTAL_SIZE |->
     (bandIndices[2 * i - 1] % 16) * 16 + (bandIndices[2 * i] % 16)]

\* paletteIndicesToByte: ((high & 0x0f) << 4) | (low & 0x0f)
paletteIndicesToByte(high, low) == (high % 16) * 16 + (low % 16)

\* confidences.reduce((s, c) => s + c, 0), the confidences counted in 64ths
RECURSIVE confidenceSum(_, _, _)
confidenceSum(confidences, i, s) ==
  IF i > Len(confidences) THEN s
  ELSE confidenceSum(confidences, i + 1, s + confidences[i])

\* avgConfidence < 0.15 for avgConfidence = sum / confidences.length, sum
\* in 64ths: a sum of 64ths and its 32nd part are exact doubles, and none
\* of them is the double 0.15
LowConfidence(sum, length) == 100 * sum < 15 * 64 * length

\* a detector that hands over the frame whatever its checksum
detectFrameKeepsFrame(region, indices, confidences) ==
  IF region = Null
  THEN [success |-> FALSE, frame |-> <<>>, confidence |-> 0,
        bandIndices |-> <<>>]
  ELSE IF LowConfidence(confidenceSum(confidences, 1, 0), Len(confidences))
  THEN [success |-> FALSE, frame |-> <<>>,
        confidence |-> confidenceSum(confidences, 1, 0),
        bandIndices |-> <<indices>>]
  ELSE [success |->
          verifyFrameChecksum(deserializeFrame(bandIndicesToBytes(indices))),
        frame |-> <<deserializeFrame(bandIndicesToBytes(indices))>>,
        confidence |-> confidenceSum(confidences, 1, 0),
        bandIndices |-> <<indices>>]

\* detectFrame, from the region findAuroraRegion found (Null: none) and the
\* indices and confidences matchBandsToPalette gave for the band colours.
\* An optional property is a sequence of its value, or empty; confidence is
\* the sum of the band confidences, 32 times their mean
detectFrame(region, indices, confidences) ==
  IF region = Null
  THEN [success |-> FALSE, frame |-> <<>>, confidence |-> 0,
        bandIndices |-> <<>>]
  ELSE IF LowConfidence(confidenceSum(confidences, 1, 0), Len(confidences))
  THEN [success |-> FALSE, frame |-> <<>>,
        confidence |-> confidenceSum(confidences, 1, 0),
        bandIndices |-> <<indices>>]
  ELSE LET frame == deserializeFrame(bandIndicesToBytes(indices))
           checksumValid == verifyFrameChecksum(frame)
       IN  [success |-> checksumValid,
            frame |-> IF checksumValid THEN <<frame>> ELSE <<>>,
            confidence |-> confidenceSum(confidences, 1, 0),
            bandIndices |-> <<indices>>]

\* what the camera may show: no aurora region, or one
Regions == {Null, 1}

\* the bands of three frames of a sender
ShownFrames ==
  {AuroraFrame(0, 5, 4660, <<65, 0, 0, 0, 0, 0, 0, 0, 0, 0>>),
   AuroraFrame(4, 5, 39612, <<19, 246, 38, 119, 246, 38, 119, 246, 38, 119>>),
   AuroraFrame(255, 255, 65535, Repeat(255, FRAME_DATA_SIZE))}

\* and the same with one band read as the next palette colour
Misread(indices, band) ==
  [indices EXCEPT ![band] = (indices[band] + 1) % 16]

BandReadings ==
  {frameToVisual(f) : f \in ShownFrames}
  \cup {Misread(frameToVisual(f), band) : f \in ShownFrames,
                                          band \in 1..NUM_BANDS}

\* band confidences in 64ths: all bands alike, or band 1 at a level of its
\* own; 9/64 is below 0.15 and 10/64 above
ConfidenceLevels == {0, 9, 10, 64}

ConfidenceReadings ==
  {[band \in 1..NUM_BANDS |-> IF band = 1 THEN first ELSE rest] :
     first \in ConfidenceLevels, rest \in ConfidenceLevels}

\* the scanner hands a camera image to detectFrame
DetectFrame(region, indices, confidences) ==
  /\ call' = [op |-> "detectFrame", region |-> region, indices |-> indices,
              confidences |-> confidences,
              result |-> detectFrame(region, indices, confidences)]
  /\ UNCHANGED <<input, packet, state, fed, ret, rs, ui>>

\* one call per behaviour
NextDetect ==
  /\ call.op = "none"
  /\ \E region \in Regions, indices \in BandReadings,
        confidences \in ConfidenceReadings :
       DetectFrame(region, indices, confidences)

SpecDetect == Init /\ [][NextDetect]_vars

\* ------------------------------------------------------------------------
\* The band codec on its own
\* ------------------------------------------------------------------------

Bytes == 0..255

\* frameToVisual, and bandIndicesToBytes on its bands
BandCodec(frame) ==
  /\ call' = [op |-> "bandCodec", frame |-> frame,
              bandIndices |-> frameToVisual(frame),
              bytes |-> bandIndicesToBytes(frameToVisual(frame))]
  /\ UNCHANGED <<input, packet, state, fed, ret, rs, ui>>

\* byteToPaletteIndices, and paletteIndicesToByte on its pair
NibbleCodec(byte) ==
  /\ call' = [op |-> "nibbleCodec", byte |-> byte,
              indices |-> byteToPaletteIndices(byte),
              back |-> paletteIndicesToByte(byteToPaletteIndices(byte)[1],
                                            byteToPaletteIndices(byte)[2])]
  /\ UNCHANGED <<input, packet, state, fed, ret, rs, ui>>

NextBands ==
  /\ call.op = "none"
  /\ \/ \E frame \in CodecFrames \cup ShownFrames : BandCodec(frame)
     \/ \E byte \in Bytes : NibbleCodec(byte)

SpecBands == Init /\ [][NextBands]_vars

\* ------------------------------------------------------------------------
\* The scanner: camera, scanning loop and deferred decode
\* ------------------------------------------------------------------------

MaxCameras == 2

\* stopCamera: the tracks of the stream held are stopped, the animation
\* frame requested last is cancelled
stopCamera(u) ==
  [u EXCEPT !.live = IF u.streamRef # Null THEN @ \ {u.streamRef} ELSE @,
            !.streamRef = Null,
            !.loops = IF u.scanAnimationRef # Null
                      THEN @ \ {u.scanAnimationRef} ELSE @,
            !.scanAnimationRef = Null,
            !.cameraReady = FALSE]

\* resetScan, but for decoderRef.current = new FrameDecoder()
resetScan(u) ==
  [stopCamera(u) EXCEPT !.scanStatus = "idle", !.decodedData = <<>>,
                        !.errorMessage = "", !.afterReset = TRUE]

\* decodeCollectedData: the decode is put off by a timer of 500 ms
decodeCollectedData(u) ==
  [stopCamera([u EXCEPT !.scanStatus = "processing"]) EXCEPT !.timers = @ + 1]

\* the video and the canvas are rendered while scanning or processing
Mounted(u) ==
  u.mode = "scan" /\ u.scanStatus \in {"scanning", "processing"}

\* scanAnimationRef.current = requestAnimationFrame(processFrame)
requestFrame(u, loop) ==
  [u EXCEPT !.loops = @ \cup {loop}, !.scanAnimationRef = loop]

\* the sender shows the frames of one short message
ScanInputs == {<<65>>}

\* what one run of processFrame finds: a video that is not ready, no
\* frame (detectFrame without success), or a frame
Shown ==
  {[kind |-> k, frame |-> NoFrame] : k \in {"notReady", "none"}}
  \cup {[kind |-> "frame", frame |-> f] :
          f \in UNION {PacketFrames(encodeData(s, 4660)) : s \in ScanInputs}}

\* a frame is found only if it is one of those shown
Findable(shown) ==
  shown.kind = "frame" => shown.frame \in PacketFrames(packet)

\* processFrame once a frame was detected: added is what addFrame answered
processDetected(u, added, loop) ==
  IF added.value /\ getProgress(added.state).canDecode
  THEN [ui |-> decodeCollectedData(u), state |-> added.state]
  ELSE [ui |-> requestFrame(u, loop), state |-> added.state]

\* one run of processFrame of a loop
processFrame(u, st, loop, shown) ==
  IF shown.kind = "frame"
  THEN processDetected(u, addFrame(st, shown.frame), loop)
  ELSE [ui |-> requestFrame(u, loop), state |-> st]

\* startScanning: nothing without the video and the canvas, else the first
\* run of processFrame
startScanning(u, st, loop, shown) ==
  IF ~Mounted(u) THEN [ui |-> u, state |-> st]
  ELSE processFrame(u, st, loop, shown)

\* the deferred callback of decodeCollectedData, result what decode() gave
decodeCallback(u, result) ==
  IF result.success /\ result.data # <<>>
  THEN [u EXCEPT !.decodedData = result.data, !.scanStatus = "success",
                 !.timers = @ - 1]
  ELSE [u EXCEPT !.decodedData = <<>>, !.scanStatus = "error",
                 !.errorMessage = "decode", !.timers = @ - 1]

\* the Scan tab: setMode('scan'); resetScan(). The effect's clean-up calls
\* stopCamera once more, which changes nothing then
ShowScan ==
  /\ ui' = [resetScan(ui) EXCEPT !.mode = "scan"]
  /\ state' = EmptyState
  /\ UNCHANGED <<input, packet, fed, ret, rs, call>>

\* the Display tab: setMode('display'), and the effect calls stopCamera
ShowDisplay ==
  /\ ui.mode = "scan"
  /\ ui' = [stopCamera(ui) EXCEPT !.mode = "display"]
  /\ UNCHANGED <<input, packet, state, fed, ret, rs, call>>

\* the Start Camera button, shown while idle: startCamera up to its await
StartCamera ==
  /\ ui.mode = "scan"
  /\ ui.scanStatus = "idle"
  /\ ui.requests < MaxCameras
  /\ ui' = [ui EXCEPT !.errorMessage = "", !.cameraReady = FALSE,
                      !.scanStatus = "scanning", !.afterReset = FALSE,
                      !.requests = @ + 1, !.waiting = @ \cup {ui.requests + 1}]
  /\ state' = EmptyState
  /\ UNCHANGED <<input, packet, fed, ret, rs, call>>

\* getUserMedia answers with a stream: startCamera goes on after its await
MediaGranted(k) ==
  /\ k \in ui.waiting
  /\ ui' = [ui EXCEPT !.waiting = @ \ {k}, !.live = @ \cup {k},
                      !.streamRef = k,
                      !.srcObject = IF Mounted(ui) THEN k ELSE @]
  /\ UNCHANGED <<input, packet, state, fed, ret, rs, call>>

\* getUserMedia fails: the catch block of startCamera
MediaDenied(k) ==
  /\ k \in ui.waiting
  /\ ui' = [ui EXCEPT !.waiting = @ \ {k}, !.errorMessage = "camera",
                      !.scanStatus = "error"]
  /\ UNCHANGED <<input, packet, state, fed, ret, rs, call>>

\* onloadedmetadata, and video.play() succeeds: startScanning
PlayStarted(shown) ==
  /\ ui.srcObject # Null
  /\ Findable(shown)
  /\ ui' = startScanning([ui EXCEPT !.srcObject = Null, !.cameraReady = TRUE],
                         state, ui.srcObject, shown).ui
  /\ state' = startScanning([ui EXCEPT !.srcObject = Null,
                                       !.cameraReady = TRUE],
                            state, ui.srcObject, shown).state
  /\ UNCHANGED <<input, packet, fed, ret, rs, call>>

\* onloadedmetadata, and video.play() fails
PlayFailed ==
  /\ ui.srcObject # Null
  /\ ui' = [ui EXCEPT !.srcObject = Null, !.errorMessage = "play",
                      !.scanStatus = "error"]
  /\ UNCHANGED <<input, packet, state, fed, ret, rs, call>>

\* the animation frame of a loop comes: processFrame runs
ProcessFrame(loop, shown) ==
  /\ loop \in ui.loops
  /\ Findable(shown)
  /\ ui' = processFrame([ui EXCEPT !.loops = @ \ {loop}], state, loop,
                        shown).ui
  /\ state' = processFrame([ui EXCEPT !.loops = @ \ {loop}], state, loop,
                           shown).state
  /\ UNCHANGED <<input, packet, fed, ret, rs, call>>

\* the timer of decodeCollectedData runs out: decoderRef.current.decode()
DecodeTimer ==
  /\ ui.timers > 0
  /\ ui' = decodeCallback(ui, decode(state))
  /\ UNCHANGED <<input, packet, state, fed, ret, rs, call>>

\* the Cancel, Scan Again and Retry buttons, shown while not idle
ResetScan ==
  /\ ui.mode = "scan"
  /\ ui.scanStatus # "idle"
  /\ ui' = resetScan(ui)
  /\ state' = EmptyState
  /\ UNCHANGED <<input, packet, fed, ret, rs, call>>

NextScan ==
  \/ ShowScan
  \/ ShowDisplay
  \/ StartCamera
  \/ \E k \in 1..MaxCameras : MediaGranted(k)
  \/ \E k \in 1..MaxCameras : MediaDenied(k)
  \/ \E shown \in Shown : PlayStarted(shown)
  \/ PlayFailed
  \/ \E loop \in 1..MaxCameras, shown \in Shown : ProcessFrame(loop, shown)
  \/ DecodeTimer
  \/ ResetScan

InitScan ==
  /\ input \in ScanInputs
  /\ packet = encodeData(input, 4660)
  /\ state = EmptyState
  /\ fed = NoFed
  /\ ret = NoRet
  /\ rs = RsIdle
  /\ call = NoCall
  /\ ui = NoScan

SpecScan == InitScan /\ [][NextScan]_vars

\* ------------------------------------------------------------------------
\* Properties
\* ------------------------------------------------------------------------

Range(q) == {q[i] : i \in 1..Len(q)}

Held == DOMAIN state.collectedFrames

\* the decoder was fed, since it was fresh, frames of the sender's packet only
FedFromPacket ==
  /\ packet # NoPacket
  /\ ~fed.mixed
  /\ fed.frames \subseteq PacketFrames(packet)

Dropped == PacketFrames(packet) \ fed.frames

\* C1: a fresh decoder given every frame of encodeData(s), s of at least one
\* byte, decodes to success with data equal to s
C1_LosslessRoundTrip ==
  (/\ ret.op = "decode"
   /\ FedFromPacket
   /\ Dropped = {}
   /\ Len(textEncode(input)) >= 1)
  => (ret.result.success /\ ret.result.data = input)

\* C2: a fresh decoder given the frames of encodeData(s) but for at most
\* parityFrames of them decodes to success with data equal to s
C2_ErasureRoundTrip ==
  (/\ ret.op = "decode"
   /\ FedFromPacket
   /\ Cardinality(Dropped) <= packet.parityFrames)
  => (ret.result.success /\ ret.result.data = input)

\* C3: rsDecode of rsEncode(data, P) with at most P positions erased, at any
\* positions, returns data
C3_ErasureCorrection ==
  (/\ rs.pc = "decoded"
   /\ Cardinality(Erased(rs.codeword)) <= rs.parityCount)
  => rs.out = [tag |-> "bytes", bytes |-> rs.data]

\* C4: after addFrame of any frame of a packet on a fresh decoder, the
\* decoder's dataFrames and parityFrames are the packet's
C4_ParameterAgreement ==
  (/\ ret.op = "addFrame"
   /\ FedFromPacket
   /\ fed.frames = {ret.frame})
  => (/\ state.dataFrames = packet.dataFrames
      /\ state.parityFrames = packet.parityFrames)

\* C5: with more than P positions erased rsDecode returns null, never bytes
C5_TooManyErasures ==
  (/\ rs.pc = "decoded"
   /\ Cardinality(Erased(rs.codeword)) > rs.parityCount)
  => rs.out.tag = "null"

C5_Witness ==
  /\ rs.pc = "decoded"
  /\ Cardinality(Erased(rs.codeword)) = rs.parityCount + 1
  /\ Len(rs.data) >= 2
  /\ rs.out.tag = "null"

\* C6: with nothing erased rsDecode(rsEncode(data, P), |data|, P) is data
C6_NoErasureRoundTrip ==
  (/\ rs.pc = "decoded"
   /\ Erased(rs.codeword) = {})
  => rs.out = [tag |-> "bytes", bytes |-> rs.data]

C6_Witness ==
  /\ rs.pc = "decoded"
  /\ Erased(rs.codeword) = {}
  /\ Len(rs.data) >= 2
  /\ rs.data[1] # rs.data[Len(rs.data)]
  /\ rs.out.tag = "bytes"
  /\ rs.out.bytes = rs.data

\* C7: after every addFrame each frame held carries the sequence id of the
\* frame just added; and when that id differs from the one the decoder had
\* learned, nothing but the frame just added is held and the learned
\* totalFrames is that frame's
C7_SequenceIsolation ==
  [][ret'.op = "addFrame" =>
       /\ \A i \in DOMAIN state'.collectedFrames :
            state'.collectedFrames[i].sequenceId = ret'.frame.sequenceId
       /\ (state.sequenceId # Null
           /\ ret'.frame.sequenceId # state.sequenceId) =>
            /\ state'.totalFrames = ret'.frame.totalFrames
            /\ \A i \in DOMAIN state'.collectedFrames :
                 state'.collectedFrames[i] = ret'.frame]_vars

\* frames of the sender's sequence were fed, then a frame of the other
\* sequence and of another frame count: it alone is held
C7_Witness ==
  /\ ret.op = "addFrame"
  /\ packet # NoPacket
  /\ fed.mixed
  /\ ret.frame.sequenceId # packet.sequenceId
  /\ ret.frame.totalFrames # packet.totalFrames
  /\ state.sequenceId = ret.frame.sequenceId
  /\ state.totalFrames = ret.frame.totalFrames
  /\ Held = {ret.frame.frameIndex}

\* C8: getProgress reports collected = the number of frames held, required =
\* the learned D, canDecode = (collected >= D); and decode() of a decoder
\* that cannot decode fails with the insufficient-frames error, lists the
\* frame indices of [0, totalFrames) not held, and calls rsDecode not once
C8_InsufficientGate ==
  /\ ret.op = "getProgress" =>
       /\ ret.progress.collected = Cardinality(Held)
       /\ ret.progress.required = OrZero(state.dataFrames)
       /\ ret.progress.canDecode =
            (Cardinality(Held) >= OrZero(state.dataFrames))
  /\ (ret.op = "decode" /\ Cardinality(Held) < OrZero(state.dataFrames)) =>
       /\ ~ret.result.success
       /\ ret.result.error.kind = "insufficient"
       /\ Range(ret.result.stats.missingFrames) =
            (0..(OrZero(state.totalFrames) - 1)) \ Held
       /\ \A i, j \in 1..Len(ret.result.stats.missingFrames) :
            i < j => ret.result.stats.missingFrames[i]
                       < ret.result.stats.missingFrames[j]
       /\ ret.result.rsCalls = 0

C8_Witness ==
  /\ ret.op = "decode"
  /\ Cardinality(Held) >= 1
  /\ Cardinality(Held) < state.dataFrames
  /\ ret.result.error.kind = "insufficient"
  /\ Len(ret.result.stats.missingFrames) >= 2

\* C9: addFrame(f) returns false and f is not stored when f.frameIndex is
\* outside [0, totalFrames) of the decoder after adoption; otherwise it
\* returns true and f is stored under f.frameIndex
C9_OutOfRangeRejection ==
  ret.op = "addFrame" =>
    IF ret.frame.frameIndex >= 0
       /\ ret.frame.frameIndex < OrZero(state.totalFrames)
    THEN /\ ret.value = TRUE
         /\ ret.frame.frameIndex \in Held
         /\ state.collectedFrames[ret.frame.frameIndex] = ret.frame
    ELSE /\ ret.value = FALSE
         /\ \A i \in Held : state.collectedFrames[i] # ret.frame

\* a frame index at totalFrames is refused by a decoder that holds frames
C9_Witness ==
  /\ ret.op = "addFrame"
  /\ ret.value = FALSE
  /\ ret.frame.frameIndex = state.totalFrames
  /\ Held # {}

\* the state a decoder is in after the frames of one packet
StateAfter(frames) ==
  LET f == CHOOSE f \in frames : TRUE
      d == CHOOSE d \in 0..f.totalFrames :
             /\ 5 * d >= 4 * f.totalFrames
             /\ 5 * (d - 1) < 4 * f.totalFrames
  IN  [sequenceId |-> f.sequenceId,
       totalFrames |-> f.totalFrames,
       dataFrames |-> d,
       parityFrames |-> f.totalFrames - d,
       collectedFrames |->
         [i \in {g.frameIndex : g \in frames} |->
            CHOOSE g \in frames : g.frameIndex = i],
       originalDataLength |-> Null]

\* C10: whatever the order and the repetitions in which the frames of a set
\* of frames of one packet were handed to addFrame on a fresh decoder, the
\* decoder's state is the same, and every call returned true
C10_OrderIndependence ==
  (~fed.mixed /\ fed.frames # {}) =>
    /\ state = StateAfter(fed.frames)
    /\ ret.op = "addFrame" => ret.value = TRUE

C10_Witness ==
  /\ ~fed.mixed
  /\ Cardinality(fed.frames) >= 3
  /\ ret.op = "addFrame"
  /\ ret.frame.frameIndex = 0
  /\ state = StateAfter(fed.frames)

Encoded == call.op \in {"encodeData", "encodeDataCounts"}

\* C11: every packet encodeData returns has totalFrames <= 255, the most a
\* header byte holds (encodeData has no outcome other than a packet)
C11_BoundedTotalFrames == Encoded => call.packet.totalFrames <= 255

\* C12: for an input of L bytes encodeData returns D = ceil(L / 10) data
\* frames, P = max(4, ceil(D / 4)) parity frames, totalFrames = D + P and
\* D + P frames
C12_SizingRule ==
  Encoded =>
    /\ 10 * call.packet.dataFrames >= call.length
    /\ 10 * (call.packet.dataFrames - 1) < call.length
    /\ call.packet.parityFrames >= 4
    /\ 4 * call.packet.parityFrames >= call.packet.dataFrames
    /\ \/ call.packet.parityFrames = 4
       \/ 4 * (call.packet.parityFrames - 1) < call.packet.dataFrames
    /\ call.packet.totalFrames =
         call.packet.dataFrames + call.packet.parityFrames
    /\ call.op = "encodeData" =>
         Len(call.packet.frames) =
           call.packet.dataFrames + call.packet.parityFrames

\* a message of 13 bytes: 2 data frames, 4 parity frames, 6 frames
C12_Witness ==
  /\ call.op = "encodeData"
  /\ call.length = 13
  /\ call.packet.dataFrames = 2
  /\ call.packet.parityFrames = 4
  /\ call.packet.totalFrames = 6
  /\ Len(call.packet.frames) = 6

\* C13: the frame at position r of the frames of a packet has frameIndex = r
\* < totalFrames, totalFrames = D + P, a checksum that verifyFrameChecksum
\* accepts, a dataChunk of 10 bytes and the packet's sequenceId, a 16-bit
\* value
C13_FramesValid ==
  call.op = "encodeData" =>
    \A r \in 1..Len(call.packet.frames) :
      LET frame == call.packet.frames[r]
      IN  /\ frame.frameIndex = r - 1
          /\ frame.frameIndex < frame.totalFrames
          /\ frame.totalFrames = call.packet.totalFrames
          /\ frame.totalFrames =
               call.packet.dataFrames + call.packet.parityFrames
          /\ verifyFrameChecksum(frame)
          /\ Len(frame.dataChunk) = 10
          /\ frame.sequenceId = call.packet.sequenceId
          /\ frame.sequenceId \in 0..65535

\* a packet of six frames or more, with a checksum that is not zero
C13_Witness ==
  /\ call.op = "encodeData"
  /\ Len(call.packet.frames) >= 6
  /\ call.packet.frames[6].frameIndex = 5
  /\ call.packet.frames[6].checksum # 0
  /\ verifyFrameChecksum(call.packet.frames[6])

\* the UTF-8 bytes of the sender's input, zero-padded to 10 * D bytes
Padded(i) ==
  IF i <= Len(textEncode(input)) THEN textEncode(input)[i] ELSE 0

\* column c of the padded input, one byte per data row
PaddedColumn(c) ==
  [r \in 1..packet.dataFrames |-> Padded(10 * (r - 1) + c)]

\* rows D..D+P-1 of column c of the packet
ParityRows(c) ==
  [j \in 1..packet.parityFrames |->
     packet.frames[packet.dataFrames + j].dataChunk[c]]

\* C14: data row r of a packet is bytes 10r..10r+9 of the padded input, and
\* rows D..D+P-1 of column c are the P parity bytes of rsEncode of that
\* column: the remainder that makes the column's polynomial (parity below,
\* data above) vanish at alpha^0 .. alpha^(P-1)
C14_SystematicLayout ==
  ret.op = "encodeData" =>
    /\ \A r \in 1..packet.dataFrames :
         packet.frames[r].dataChunk =
           [b \in 1..10 |-> Padded(10 * (r - 1) + b)]
    /\ \A c \in 1..10 :
         /\ ParityRows(c) =
              SubSeq(rsEncode(PaddedColumn(c), packet.parityFrames),
                     packet.dataFrames + 1,
                     packet.dataFrames + packet.parityFrames)
         /\ \A j \in 0..(packet.parityFrames - 1) :
              polyEval(ParityRows(c) \o PaddedColumn(c), gfPow(2, j)) = 0

\* "A": frame 0 carries 0x41 and nine zeros, frames 1..4 the parity
C14_Witness ==
  /\ ret.op = "encodeData"
  /\ input = <<65>>
  /\ packet.dataFrames = 1
  /\ packet.parityFrames = 4
  /\ packet.frames[1].dataChunk = <<65, 0, 0, 0, 0, 0, 0, 0, 0, 0>>
  /\ packet.frames[2].dataChunk[1] # 0

\* C15: after decode() has returned success the decoder is empty again, as
\* after reset(): nothing learned, no frame held
C15_DestroyedAfterDecode ==
  (ret.op = "decode" /\ ret.result.success) => state = EmptyState

\* C16: every frame the decoder holds carries the totalFrames the decoder
\* has learned
C16_LikeSizedFrames ==
  \A i \in Held : state.collectedFrames[i].totalFrames = state.totalFrames

\* C17: gfMul is commutative, associative and distributes over gfAdd;
\* gfAdd(a, a) = 0; gfMul(a, 1) = a; for a # 0, gfMul(a, gfInverse(a)) = 1
\* and gfPow(a, 255) = 1; for b # 0, gfDiv(a, b) is the one x with
\* gfMul(x, b) = a (it is such an x, and x |-> gfMul(x, b) is undone by
\* gfDiv(_, b), so there is no other)
C17_FieldAxioms ==
  call.op = "gf" =>
    /\ call.product = gfMul(call.b, call.a)
    /\ \A c \in GfThird :
         /\ gfMul(call.product, c) = gfMul(call.a, gfMul(call.b, c))
         /\ gfMul(c, call.product) = gfMul(gfMul(c, call.a), call.b)
         /\ gfMul(call.a, gfAdd(call.b, c)) =
              gfAdd(call.product, gfMul(call.a, c))
         /\ gfMul(c, call.sum) = gfAdd(gfMul(c, call.a), gfMul(c, call.b))
    /\ gfAdd(call.a, call.a) = 0
    /\ gfMul(call.a, 1) = call.a
    /\ call.a # 0 =>
         /\ gfMul(call.a, call.inverse) = 1
         /\ call.power = 1
    /\ call.b # 0 =>
         /\ call.quotient \in GfElements
         /\ gfMul(call.quotient, call.b) = call.a
         /\ gfDiv(call.product, call.b) = call.a

\* two elements that are neither 0 nor 1 nor each other's inverse
C17_Witness ==
  /\ call.op = "gf"
  /\ call.a = 83
  /\ call.b = 202
  /\ gfMul(call.a, call.inverse) = 1
  /\ gfMul(call.quotient, call.b) = call.a
  /\ call.power = 1

\* C18 as the specification states it: gfMul(0x53, 0xCA) = 0x01
C18_StandardVector ==
  (call.op = "gf" /\ call.a = 83 /\ call.b = 202) => call.product = 1

\* C18, amended: with the polynomial 0x11D and alpha = 2, gfMul(0x53, 0xCA)
\* is 0x8F, and the inverse of 0x53 is 0x8C
C18_VectorIn11D ==
  (call.op = "gf" /\ call.a = 83) =>
    /\ call.inverse = 140
    /\ call.b = 202 => call.product = 143
    /\ call.b = 140 => call.product = 1

C18_Witness ==
  /\ call.op = "gf"
  /\ call.a = 83
  /\ call.b = 202
  /\ call.product = 143
  /\ call.inverse = 140

\* a frame whose fields are in the ranges of the wire format
WireFrame(frame) ==
  /\ frame.frameIndex \in 0..255
  /\ frame.totalFrames \in 0..255
  /\ frame.sequenceId \in 0..65535
  /\ frame.checksum \in 0..255
  /\ Len(frame.dataChunk) = 10
  /\ \A i \in 1..10 : frame.dataChunk[i] \in 0..255

\* C20: serializeFrame yields 16 bytes, the last of them 0; for a frame in
\* the ranges of the wire format bytes 2 and 3 are the high and the low byte
\* of sequenceId and deserializeFrame gives the frame back, field by field
C20_FrameCodecRoundTrip ==
  call.op = "frameCodec" =>
    /\ Len(call.bytes) = 16
    /\ \A i \in 1..16 : call.bytes[i] \in 0..255
    /\ call.bytes[16] = 0
    /\ WireFrame(call.frame) =>
         /\ call.bytes[3] * 256 + call.bytes[4] = call.frame.sequenceId
         /\ call.back.frameIndex = call.frame.frameIndex
         /\ call.back.totalFrames = call.frame.totalFrames
         /\ call.back.sequenceId = call.frame.sequenceId
         /\ call.back.dataChunk = call.frame.dataChunk
         /\ call.back.checksum = call.frame.checksum
         /\ DOMAIN call.back = DOMAIN call.frame

\* sequenceId 0x9ABC: bytes 0x9A, 0xBC
C20_Witness ==
  /\ call.op = "frameCodec"
  /\ WireFrame(call.frame)
  /\ call.frame.sequenceId = 39612
  /\ call.frame.frameIndex = 255
  /\ call.frame.dataChunk[2] = 226
  /\ call.bytes[3] = 154
  /\ call.bytes[4] = 188
  /\ call.back = call.frame

\* the byte at offset i of the 16 that the 32 band indices spell
SpeltByte(indices, i) == indices[2 * i + 1] * 16 + indices[2 * i + 2]

\* the mean of the band confidences (in 64ths) is at least 0.15
Confident(confidences) ==
  100 * confidenceSum(confidences, 1, 0) >= 15 * 64 * Len(confidences)

\* the CRC-8 of bytes 4..13 the bands spell is byte 14
SpeltChecksumHolds(indices) ==
  crc8([i \in 1..10 |-> SpeltByte(indices, 3 + i)]) = SpeltByte(indices, 14)

\* C19: detectFrame returns success exactly when a region was found, the
\* mean band confidence is at least 0.15 and the CRC-8 of the dataChunk the
\* bands spell is the checksum byte they spell; the result has a frame
\* exactly when success is true, and that frame passes its checksum; when
\* the confidence is too low the 32 band indices are returned all the same
C19_DetectorOutcome ==
  call.op = "detectFrame" =>
    /\ call.result.success =
         (/\ call.region # Null
          /\ Confident(call.confidences)
          /\ SpeltChecksumHolds(call.indices))
    /\ (call.result.frame # <<>>) = call.result.success
    /\ call.result.success =>
         /\ Len(call.result.frame) = 1
         /\ verifyFrameChecksum(call.result.frame[1])
         /\ call.result.frame[1].frameIndex = SpeltByte(call.indices, 0)
    /\ (call.region # Null /\ ~Confident(call.confidences)) =>
         /\ call.result.bandIndices = <<call.indices>>
         /\ Len(call.indices) = 32

\* a confident reading of a region whose bands fail the checksum: no frame
C19_Witness ==
  /\ call.op = "detectFrame"
  /\ call.region # Null
  /\ Confident(call.confidences)
  /\ ~SpeltChecksumHolds(call.indices)
  /\ ~call.result.success
  /\ call.result.frame = <<>>

\* C21: frameToVisual gives 32 band indices in 0..15, the high nibble then
\* the low nibble of each serialized byte in order; bandIndicesToBytes gives
\* the serialized frame back; and paletteIndicesToByte undoes
\* byteToPaletteIndices on every byte
C21_BandCodecRoundTrip ==
  /\ call.op = "bandCodec" =>
       /\ Len(call.bandIndices) = 32
       /\ \A band \in 1..32 : call.bandIndices[band] \in 0..15
       /\ \A i \in 0..15 :
            /\ call.bandIndices[2 * i + 1] =
                 serializeFrame(call.frame)[i + 1] \div 16
            /\ call.bandIndices[2 * i + 2] =
                 serializeFrame(call.frame)[i + 1] % 16
       /\ call.bytes = serializeFrame(call.frame)
  /\ call.op = "nibbleCodec" =>
       /\ call.indices = <<call.byte \div 16, call.byte % 16>>
       /\ call.back = call.byte

\* a frame whose bytes have unlike nibbles went through the band codec
C21_Witness ==
  /\ call.op = "bandCodec"
  /\ call.frame.sequenceId = 4660
  /\ call.bandIndices[5] = 1 /\ call.bandIndices[6] = 2
  /\ call.bandIndices[7] = 3 /\ call.bandIndices[8] = 4
  /\ call.bytes[3] = 18 /\ call.bytes[4] = 52

\* 100 times the weighted squared distance 0.30 dr^2 + 0.59 dg^2 + 0.11 db^2
\* of a colour and palette entry i (from 0)
SquaredDistance(color, i) ==
  30 * (color.r - AURORA_PALETTE[i + 1].r) * (color.r - AURORA_PALETTE[i + 1].r)
  + 59 * (color.g - AURORA_PALETTE[i + 1].g) * (color.g - AURORA_PALETTE[i + 1].g)
  + 11 * (color.b - AURORA_PALETTE[i + 1].b) * (color.b - AURORA_PALETTE[i + 1].b)

\* palette entry i is among the nearest to the colour
Minimises(color, i) ==
  \A j \in 0..15 : SquaredDistance(color, i) <= SquaredDistance(color, j)

\* C22: findClosestPaletteIndex(palette[i]) = i for every i in 0..15, and
\* for any colour the index returned is the lowest of the palette entries
\* that minimise the weighted squared distance
C22_PaletteTieBreak ==
  call.op = "findClosestPaletteIndex" =>
    /\ \A i \in 0..15 : call.color = AURORA_PALETTE[i + 1] => call.index = i
    /\ Minimises(call.color, call.index)
    /\ \A j \in 0..15 : Minimises(call.color, j) => call.index <= j

\* the erased polynomial positions of what a call handed to rsDecode
CallPositions == erasurePositionsLoop(call.data, 0, <<>>)

\* the Forney step of the call meets a zero formal derivative of its
\* erasure locator at the point of one of the erased positions
ZeroDerivative ==
  /\ CallPositions # <<>>
  /\ Len(CallPositions) <= call.parityCount
  /\ ~AllZero(calcSyndromes(receivedLoop(call.data, 0, <<>>), call.parityCount))
  /\ \E i \in 1..Len(CallPositions) :
       locatorDerivLoop(calcErasureLocator(CallPositions),
                        gfInverse(gfPow(2, CallPositions[i])), 1, 0) = 0

\* C23: when the Forney step meets a zero formal derivative of the erasure
\* locator, rsDecode returns null and raises no exception, whatever the
\* input of at most P erasures
C23_MalformedByValue ==
  call.op = "rsDecode" =>
    /\ call.result.tag # "throw"
    /\ ZeroDerivative => call.result.tag = "null"

\* the coefficients, lowest degree first, of the product of (1 + alpha^p x)
\* over the positions p from place i on
RECURSIVE ProductForm(_, _)
ProductForm(positions, i) ==
  IF i > Len(positions) THEN <<1>>
  ELSE polyMul(<<1, gfPow(2, positions[i])>>, ProductForm(positions, i + 1))

\* the erased polynomial positions of the codeword handed to rsDecode
ErasedPositions == erasurePositionsLoop(rs.codeword, 0, <<>>)

\* C24: for distinct erased positions p_1..p_m the erasure locator that
\* calcErasureLocator returns is the product of the (1 + alpha^p_i x),
\* lowest degree first: its constant coefficient is 1 and it vanishes at
\* each alpha^(-p_i), where calcErasureValues evaluates it
C24_LocatorForm ==
  (rs.pc = "decoded" /\ ErasedPositions # <<>>) =>
    /\ calcErasureLocator(ErasedPositions) = ProductForm(ErasedPositions, 1)
    /\ calcErasureLocator(ErasedPositions)[1] = 1
    /\ \A i \in 1..Len(ErasedPositions) :
         polyEval(calcErasureLocator(ErasedPositions),
                  gfInverse(gfPow(2, ErasedPositions[i]))) = 0

\* C25: the syndromes S_j = R(alpha^j), j = 0..P-1, that rsDecode computes
\* under its position mapping for the sequence rsEncode(data, P), nothing
\* erased, are all zero for every data and P >= 1
C25_CodewordSyndromes ==
  (rs.pc = "sent" /\ Erased(rs.codeword) = {}) =>
    AllZero(calcSyndromes(receivedLoop(rs.codeword, 0, <<>>), rs.parityCount))

\* C26: a FrameDecoder that holds no frames (new, after reset(), or after
\* addFrame calls that were all rejected) cannot decode: getProgress()
\* answers canDecode = false and decode() returns success = false
C26_EmptyCannotDecode ==
  DOMAIN state.collectedFrames = {} =>
    /\ ret.op = "getProgress" => ~ret.progress.canDecode
    /\ ret.op = "decode" => ~ret.result.success

\* the scanner rests as resetScan left it
AsReset(u) ==
  /\ u.afterReset
  /\ u.scanStatus = "idle"
  /\ u.decodedData = <<>>
  /\ u.errorMessage = ""

\* C27: once resetScan has run, scanStatus stays 'idle' and decodedData and
\* errorMessage stay empty until startCamera is invoked again, however
\* resetScan and the deferred decode callback of decodeCollectedData
\* interleave
C27_ResetWins ==
  [][(AsReset(ui) /\ DecodeTimer) => AsReset(ui')]_vars

\* C28: wherever scanStatus is 'idle' after resetScan has run, no stream is
\* held or left running: streamRef is null and every stream acquired has
\* been stopped, however stopCamera and the completion of getUserMedia
\* interleave
C28_NoStreamOutlivesScan ==
  (ui.afterReset /\ ui.scanStatus = "idle") =>
    /\ ui.streamRef = Null
    /\ ui.live = {}

====
